---- MODULE Spec2Model ----
(***************************************************************************)
(* Model of multi-agent/agent.py: the three tools get_weather,             *)
(* get_current_time and get_travel_info, each run step by step by one of   *)
(* the orchestrator's concurrent calls.  Text is a sequence of one-letter  *)
(* strings, so that lower(), the substring test, the f-string formatting   *)
(* and ", ".join() are computed rather than assumed.                       *)
(***************************************************************************)
EXTENDS Integers, Sequences, FiniteSets, TLC

VARIABLES
    pc,               \* per call: the line the call is at ("idle", "done")
    tool,             \* per call: the tool being run
    city,             \* per call: argument city
    info_type,        \* per call: argument info_type (get_travel_info)
    city_lower,       \* local of get_travel_info
    info_type_lower,  \* local of get_travel_info
    travel_data,      \* local of get_travel_info: the table built by the call
    city_info,        \* local of get_travel_info
    key_idx,          \* position of the for loop over city_info.keys()
    found_info_key,   \* local of get_travel_info
    location,         \* local of get_weather / get_current_time
    response,         \* local of get_weather
    data,             \* local of get_weather
    timezone_name,    \* local of get_current_time
    exc,              \* exception raised inside the try block, not yet handled
    outcome,          \* what the call ended with: a returned dict or a raised exception
    calls             \* collaborator invocations made by the call, in order

vars == <<pc, tool, city, info_type, city_lower, info_type_lower, travel_data,
          city_info, key_idx, found_info_key, location, response, data,
          timezone_name, exc, outcome, calls>>

travelLocals == <<city_lower, info_type_lower, travel_data, city_info, key_idx,
                  found_info_key>>
netLocals == <<location, response, data, timezone_name>>

\* The orchestrator's concurrent tool calls.
Calls == {"call1", "call2"}

\* Longest info_type enumerated letter by letter.
MaxLen == 2

(***************************************************************************)
(* Text                                                                    *)
(***************************************************************************)
LowerMap ==
    [A |-> "a", B |-> "b", C |-> "c", D |-> "d", E |-> "e", F |-> "f", G |-> "g",
     H |-> "h", I |-> "i", J |-> "j", K |-> "k", L |-> "l", M |-> "m", N |-> "n",
     O |-> "o", P |-> "p", Q |-> "q", R |-> "r", S |-> "s", T |-> "t", U |-> "u",
     V |-> "v", W |-> "w", X |-> "x", Y |-> "y", Z |-> "z"]

LowerChar(ch) == IF ch \in DOMAIN LowerMap THEN LowerMap[ch] ELSE ch

\* str.lower() on a sequence of letters
LowerSeq(s) == [i \in 1..Len(s) |-> LowerChar(s[i])]

\* Python's "a in b" for two strings: a is a contiguous part of b
Contains(a, b) == \E i \in 0..(Len(b) - Len(a)) : SubSeq(b, i + 1, i + Len(a)) = a

RECURSIVE JoinFrom(_, _, _)
JoinFrom(sep, items, i) ==
    IF i > Len(items) THEN <<>>
    ELSE IF i = Len(items) THEN items[i]
    ELSE items[i] \o sep \o JoinFrom(sep, items, i + 1)

\* sep.join(items)
Join(sep, items) == JoinFrom(sep, items, 1)

(***************************************************************************)
(* Python values handed to the tools as city / info_type                   *)
(***************************************************************************)
Str(s) == [kind |-> "str", val |-> s]
Bytes(s) == [kind |-> "bytes", val |-> s]
None == [kind |-> "NoneType"]
Unset == [kind |-> "unset"]

\* the object has a lower() method
HasLower(v) == v.kind \in {"str", "bytes"}

\* (variant) lower() forgotten: the argument is used in the caller's case
LowerForgotten(v) == v

\* v.lower()
Lower(v) == [v EXCEPT !.val = LowerSeq(v.val)]

\* the text an f-string puts for {v}
Format(v) ==
    CASE v.kind = "str" -> v.val
      [] v.kind = "bytes" -> <<"b", "'">> \o v.val \o <<"'">>
      [] OTHER -> <<"N", "o", "n", "e">>

\* A message is a sequence of pieces: fixed text of the source, and formatted values.
Lit(s) == [lit |-> s, txt |-> <<>>]
Txt(t) == [lit |-> "", txt |-> t]

(***************************************************************************)
(* Exceptions and results                                                  *)
(***************************************************************************)
Exception(type, msg) == [type |-> type, msg |-> msg]
NoExc == [type |-> "none", msg |-> ""]

RequestExceptionTypes ==
    {"requests.exceptions.Timeout", "requests.exceptions.ConnectionError",
     "requests.exceptions.HTTPError", "requests.exceptions.JSONDecodeError"}

\* isinstance(e, requests.exceptions.RequestException)
IsRequestException(e) == e.type \in RequestExceptionTypes

\* (variant) the error dict also carries a report
ErrorDictWithReport(message) ==
    [status |-> "error", error_message |-> message, report |-> message]

SuccessDict(report) == [status |-> "success", report |-> report]
ErrorDict(message) == [status |-> "error", error_message |-> message]

Returned(d) == [kind |-> "returned", value |-> d]
Raised(e) == [kind |-> "raised", exc |-> e]
Pending == [kind |-> "pending"]

(***************************************************************************)
(* The travel table (dicts keep insertion order: sequences of entries)     *)
(***************************************************************************)
k_power_outlets == <<"p", "o", "w", "e", "r", " ", "o", "u", "t", "l", "e", "t", "s">>
k_culture == <<"c", "u", "l", "t", "u", "r", "e">>
k_transportation == <<"t", "r", "a", "n", "s", "p", "o", "r", "t", "a", "t", "i", "o", "n">>

CityEntry(key, outlets, culture, transportation) ==
    [key |-> key,
     info |-> << [key |-> k_power_outlets, fact |-> outlets],
                 [key |-> k_culture, fact |-> culture],
                 [key |-> k_transportation, fact |-> transportation] >>]

TravelTable ==
    << CityEntry(<<"l", "o", "n", "d", "o", "n">>,
         "Type G (three rectangular pins). Standard voltage 230V, frequency 50Hz.",
         "A culture of politeness, orderly queues, afternoon tea, and pub culture. Greet with 'excuse me' or 'sorry' when interacting. Respect personal space.",
         "Extensive public transportation (Tube, bus). Oyster card or contactless payment is recommended. Iconic black cabs."),
       CityEntry(<<"t", "o", "k", "y", "o">>,
         "Types A and B (two or three flat pins). Standard voltage 100V, frequency 50Hz or 60Hz (depending on the region).",
         "Highly values politeness, order, and cleanliness. Do not tip. Remove shoes in homes and some restaurants. Respect queues.",
         "Highly efficient train and metro system. The Japan Rail Pass can be cost-effective. Be mindful of rush hour."),
       CityEntry(<<"n", "e", "w", " ", "y", "o", "r", "k">>,
         "Types A and B (two or three flat pins). Standard voltage 120V, frequency 60Hz.",
         "Fast-paced, diverse, and direct. Don't hesitate to speak up. Tipping is common in restaurants and services. Rich theater and art scene.",
         "24-hour metro (subway) system. Yellow cabs. Walking is a popular way to explore."),
       CityEntry(<<"p", "a", "r", "i", "s">>,
         "Type E (two round pins with a grounding hole). Standard voltage 230V, frequency 50Hz.",
         "Values art, fashion, and cuisine. Greet with 'Bonjour' or 'Bonsoir'. Enjoy coffee at cafes and picnics in parks. Elegance is appreciated.",
         "The Metro is very efficient. T+ tickets for bus, metro, and tram. Walking is the best way to see the sights."),
       CityEntry(<<"s", "u", "r", "a", "b", "a", "y", "a">>,
         "Types C and F (two round pins). Standard voltage 230V, frequency 50Hz.",
         "Surabayans are known to be friendly and direct. Local culinary delights (rujak cingur, lontong balap). Uses Indonesian and Javanese languages.",
         "Public transport like the Suroboyo Bus. Taxis and online ride-hailing are very popular. Traffic can be dense."),
       CityEntry(<<"p", "o", "n", "o", "r", "o", "g", "o">>,
         "Types C and F (two round pins). Standard voltage 230V, frequency 50Hz.",
         "Ponorogo dikenal sebagai kota Reog. Local culinary delights (nasi pecel, dawet jabung. Uses Indonesian and Javanese languages.",
         "Public transport like the Suroboyo Bus. Taxis and online ride-hailing are very popular. Traffic can be dense.") >>

NoDict == <<>>

\* the keys of a dict, in insertion order
Keys(d) == [i \in 1..Len(d) |-> d[i].key]

\* "x in d" for a dict with str keys: a bytes object equals no str key
InDict(x, d) == x.kind = "str" /\ \E i \in 1..Len(d) : d[i].key = x.val

\* d[k] for a key the dict holds
Entry(d, k) == d[CHOOSE i \in 1..Len(d) : d[i].key = k]

(***************************************************************************)
(* Ending a call                                                           *)
(***************************************************************************)
\* return d
Return(c, d) ==
    /\ pc' = [pc EXCEPT ![c] = "done"]
    /\ outcome' = [outcome EXCEPT ![c] = Returned(d)]

\* an exception leaves the function
Propagate(c, e) ==
    /\ pc' = [pc EXCEPT ![c] = "done"]
    /\ outcome' = [outcome EXCEPT ![c] = Raised(e)]

\* an exception raised inside a try block: control goes to the except clauses
Raise(c, e, handler) ==
    /\ pc' = [pc EXCEPT ![c] = handler]
    /\ exc' = [exc EXCEPT ![c] = e]
    /\ UNCHANGED outcome

Goto(c, label) ==
    /\ pc' = [pc EXCEPT ![c] = label]
    /\ UNCHANGED outcome

(***************************************************************************)
(* get_travel_info                                                         *)
(***************************************************************************)
AttributeErrorLower ==
    Exception("AttributeError", "'NoneType' object has no attribute 'lower'")
TypeErrorIn ==
    Exception("TypeError", "'in <string>' requires string as left operand, not bytes")

UnknownCityMessage(cityv) ==
    << Lit("Sorry, I don't have specific travel information for "), Txt(Format(cityv)),
       Lit(" yet. You can try major cities like London, Tokyo, New York, or Paris.") >>

TravelReport(infov, cityv, fact) ==
    << Lit("For "), Txt(Format(infov)), Lit(" in "), Txt(Format(cityv)), Lit(": "),
       Lit(fact) >>

\* (variant) ",".join(...): the blank after the comma is missing
AvailableInfoNoBlank(info) == Join(<<",">>, Keys(info))

\* ", ".join(city_info.keys())
AvailableInfo(info) == Join(<<",", " ">>, Keys(info))

UnknownInfoMessage(infov, cityv, info) ==
    << Lit("Sorry, I don't have information about '"), Txt(Format(infov)),
       Lit("' for "), Txt(Format(cityv)), Lit(". Available information includes: "),
       Txt(AvailableInfo(info)), Lit(".") >>

TravelExceptMessage(e) ==
    << Lit("An error occurred while fetching travel information: "), Lit(e.msg) >>

\* (variant) one table shared by all calls, from which a call pops the city it
\* looked up
RECURSIVE WithoutLookedUp(_, _)
WithoutLookedUp(table, i) ==
    IF i > Len(table) THEN <<>>
    ELSE (IF \E d \in Calls : pc[d] = "done" /\ city_lower[d] = Str(table[i].key)
          THEN <<>> ELSE <<table[i]>>) \o WithoutLookedUp(table, i + 1)
SharedTravelData == WithoutLookedUp(TravelTable, 1)

\* the table a call builds for itself
BuildTravelData == TravelTable

\* (variant) only "info_type_lower in key.lower()": the second test is missing
KeyMatchesOneWay(itl, key) == Contains(itl.val, LowerSeq(key))

\* info_type_lower in key.lower() or key.lower() in info_type_lower
KeyMatches(itl, key) ==
    \/ Contains(itl.val, LowerSeq(key))
    \/ Contains(LowerSeq(key), itl.val)

\* the left operand of "in <str>" must be a str
InRaises(itl) == itl.kind # "str"

\* if found_info_key:
Truthy(v) == v.kind = "str" /\ v.val # <<>>

call_get_travel_info(c, cityv, infov) ==
    /\ pc[c] = "idle"
    /\ tool' = [tool EXCEPT ![c] = "get_travel_info"]
    /\ city' = [city EXCEPT ![c] = cityv]
    /\ info_type' = [info_type EXCEPT ![c] = infov]
    /\ Goto(c, "t97")
    /\ UNCHANGED <<travelLocals, netLocals, exc, calls>>

\* lines 97-98, outside the try block
TravelLower(c) ==
    /\ pc[c] = "t97"
    /\ IF HasLower(city[c]) /\ HasLower(info_type[c])
       THEN /\ city_lower' = [city_lower EXCEPT ![c] = Lower(city[c])]
            /\ info_type_lower' = [info_type_lower EXCEPT ![c] = Lower(info_type[c])]
            /\ Goto(c, "t101")
       ELSE /\ Propagate(c, AttributeErrorLower)
            /\ UNCHANGED <<city_lower, info_type_lower>>
    /\ UNCHANGED <<tool, city, info_type, travel_data, city_info, key_idx,
                   found_info_key, netLocals, exc, calls>>

\* lines 101-132
TravelBuild(c) ==
    /\ pc[c] = "t101"
    /\ travel_data' = [travel_data EXCEPT ![c] = BuildTravelData]
    /\ Goto(c, "t136")
    /\ UNCHANGED <<tool, city, info_type, city_lower, info_type_lower, city_info,
                   key_idx, found_info_key, netLocals, exc, calls>>

\* lines 136-142
TravelCity(c) ==
    /\ pc[c] = "t136"
    /\ IF ~InDict(city_lower[c], travel_data[c])
       THEN /\ Return(c, ErrorDict(UnknownCityMessage(city[c])))
            /\ UNCHANGED city_info
       ELSE /\ city_info' = [city_info EXCEPT
                               ![c] = Entry(travel_data[c], city_lower[c].val).info]
            /\ Goto(c, "t144")
    /\ UNCHANGED <<tool, city, info_type, city_lower, info_type_lower, travel_data,
                   key_idx, found_info_key, netLocals, exc, calls>>

\* lines 144-148
TravelExact(c) ==
    /\ pc[c] = "t144"
    /\ IF InDict(info_type_lower[c], city_info[c])
       THEN /\ Return(c, SuccessDict(TravelReport(info_type[c], city[c],
                            Entry(city_info[c], info_type_lower[c].val).fact)))
            /\ UNCHANGED <<found_info_key, key_idx>>
       ELSE /\ found_info_key' = [found_info_key EXCEPT ![c] = None]
            /\ key_idx' = [key_idx EXCEPT ![c] = 1]
            /\ Goto(c, "t149")
    /\ UNCHANGED <<tool, city, info_type, city_lower, info_type_lower, travel_data,
                   city_info, netLocals, exc, calls>>

\* lines 149-152: one turn of the for loop
TravelScan(c) ==
    /\ pc[c] = "t149"
    /\ IF key_idx[c] > Len(city_info[c])
       THEN /\ Goto(c, "t154")
            /\ UNCHANGED <<found_info_key, key_idx, exc>>
       ELSE IF InRaises(info_type_lower[c])
       THEN /\ Raise(c, TypeErrorIn, "t164")
            /\ UNCHANGED <<found_info_key, key_idx>>
       ELSE IF KeyMatches(info_type_lower[c], city_info[c][key_idx[c]].key)
       THEN /\ found_info_key' = [found_info_key EXCEPT
                                    ![c] = Str(city_info[c][key_idx[c]].key)]
            /\ Goto(c, "t154")
            /\ UNCHANGED <<key_idx, exc>>
       ELSE /\ key_idx' = [key_idx EXCEPT ![c] = key_idx[c] + 1]
            /\ Goto(c, "t149")
            /\ UNCHANGED <<found_info_key, exc>>
    /\ UNCHANGED <<tool, city, info_type, city_lower, info_type_lower, travel_data,
                   city_info, netLocals, calls>>

\* lines 154-162
TravelFinish(c) ==
    /\ pc[c] = "t154"
    /\ IF Truthy(found_info_key[c])
       THEN Return(c, SuccessDict(TravelReport(info_type[c], city[c],
                         Entry(city_info[c], found_info_key[c].val).fact)))
       ELSE Return(c, ErrorDict(UnknownInfoMessage(info_type[c], city[c], city_info[c])))
    /\ UNCHANGED <<tool, city, info_type, travelLocals, netLocals, exc, calls>>

\* lines 164-168
TravelExcept(c) ==
    /\ pc[c] = "t164"
    /\ Return(c, ErrorDict(TravelExceptMessage(exc[c])))
    /\ UNCHANGED <<tool, city, info_type, travelLocals, netLocals, exc, calls>>

(***************************************************************************)
(* Number formatting                                                       *)
(***************************************************************************)
Digit(n) == <<"0", "1", "2", "3", "4", "5", "6", "7", "8", "9">>[n + 1]

RECURSIVE Digits(_)
\* str(n) for n >= 0
Digits(n) == IF n < 10 THEN <<Digit(n)>> ELSE Digits(n \div 10) \o <<Digit(n % 10)>>

\* n zero-padded to two / four places (%m, %d, %H, %M, %S / %Y)
Pad2(n) == <<Digit((n \div 10) % 10), Digit(n % 10)>>
Pad4(n) == Pad2(n \div 100) \o Pad2(n % 100)

Abs(n) == IF n < 0 THEN -n ELSE n

\* a float with one decimal place, held in tenths: f"{x:.1f}", and f"{x}" alike
FormatTenths(t) ==
    (IF t < 0 THEN <<"-">> ELSE <<>>) \o Digits(Abs(t) \div 10) \o <<".">>
        \o <<Digit(Abs(t) % 10)>>

\* JSON values of the provider's current_weather fields
Num(t) == [kind |-> "number", tenths |-> t]
Null == [kind |-> "null"]

(***************************************************************************)
(* Collaborators: what each call to them can yield                         *)
(***************************************************************************)
Location(lat, lon) == [kind |-> "Location", latitude |-> lat, longitude |-> lon]

Yields(v) == [kind |-> "value", value |-> v]
Throws(e) == [kind |-> "raise", exc |-> e]

\* Nominatim.geocode: a Location, None, or a geopy error (never a requests one)
GeocodeOutcomes ==
    { Yields(Location(357, 1397)), Yields(None),
      Throws(Exception("geopy.exc.GeocoderUnavailable", "HTTPSConnectionPool: Max retries exceeded")),
      Throws(Exception("geopy.exc.GeocoderTimedOut", "Service timed out")) }

Weather(fields) == [current_weather |-> fields]

\* bodies a 2xx answer can carry
OkBodies ==
    { [json |-> FALSE],
      [json |-> TRUE, value |-> [latitude |-> Num(357), longitude |-> Num(1397)]],
      [json |-> TRUE, value |-> Weather([temperature |-> Num(215), windspeed |-> Num(36), weathercode |-> Num(30)])],
      [json |-> TRUE, value |-> Weather([temperature |-> Num(-5), windspeed |-> Num(120), weathercode |-> Num(710)])],
      [json |-> TRUE, value |-> Weather([windspeed |-> Num(36), weathercode |-> Num(30)])],
      [json |-> TRUE, value |-> Weather([temperature |-> Num(215), weathercode |-> Num(30)])],
      [json |-> TRUE, value |-> Weather([temperature |-> Num(215), windspeed |-> Num(36)])],
      [json |-> TRUE, value |-> Weather([temperature |-> Null, windspeed |-> Num(36), weathercode |-> Num(30)])] }

ErrorBody == [json |-> TRUE, value |-> [error |-> Num(10), reason |-> Null]]

HttpResponse(code, body) == [kind |-> "Response", status_code |-> code, body |-> body]

\* requests.get(url, params=params, timeout=10)
GetOutcomes ==
    { Yields(HttpResponse(200, b)) : b \in OkBodies }
    \cup { Yields(HttpResponse(code, ErrorBody)) : code \in {400, 503} }
    \cup { Throws(Exception("requests.exceptions.Timeout", "Read timed out. (read timeout=10)")),
           Throws(Exception("requests.exceptions.ConnectionError", "Failed to establish a new connection")) }

\* response.raise_for_status() raises for 4xx and 5xx
IsHttpError(r) == 400 <= r.status_code /\ r.status_code < 600

\* what response.json() raises on a body that is not JSON: a RequestException
\* subclass from requests 2.27 on, a plain ValueError subclass before
JsonErrors ==
    { Exception("requests.exceptions.JSONDecodeError", "Expecting value: line 1 column 1 (char 0)"),
      Exception("json.decoder.JSONDecodeError", "Expecting value: line 1 column 1 (char 0)") }

\* TimezoneFinder.timezone_at
TimezoneOutcomes ==
    { Yields(Str(<<"A", "s", "i", "a", "/", "T", "o", "k", "y", "o">>)), Yields(None),
      Throws(Exception("ValueError", "The coordinates should be given in degrees.")) }

\* datetime.datetime.now(tz)
Instant(Y, m, d, H, M, S, Z, z) ==
    [year |-> Y, month |-> m, day |-> d, hour |-> H, minute |-> M, second |-> S,
     tzname |-> Z, utcoffset |-> z]

Clock ==
    { Instant(2025, 3, 9, 7, 5, 0, <<"J", "S", "T">>, <<"+", "0", "9", "0", "0">>),
      Instant(2024, 12, 31, 23, 59, 59, <<"J", "S", "T">>, <<"+", "0", "9", "0", "0">>) }

\* ZoneInfo(timezone_name) followed by now(tz): the instant, or no such zone
ZoneInfoOutcomes ==
    { Yields(t) : t \in Clock }
    \cup { Throws(Exception("zoneinfo.ZoneInfoNotFoundError", "'No time zone found with key Asia/Tokyo'")) }

\* now.strftime("%Y-%m-%d %H:%M:%S %Z%z")
Strftime(t) ==
    Pad4(t.year) \o <<"-">> \o Pad2(t.month) \o <<"-">> \o Pad2(t.day) \o <<" ">>
        \o Pad2(t.hour) \o <<":">> \o Pad2(t.minute) \o <<":">> \o Pad2(t.second)
        \o <<" ">> \o t.tzname \o t.utcoffset

\* if not location: / if not timezone_name:
IsFalsy(v) == v.kind = "NoneType" \/ (v.kind = "str" /\ v.val = <<>>)

Invoke(c, name) == calls' = [calls EXCEPT ![c] = Append(calls[c], name)]

(***************************************************************************)
(* get_weather                                                             *)
(***************************************************************************)
CityNotFoundMessage(cityv) ==
    << Lit("Could not find the city: "), Txt(Format(cityv)), Lit(".") >>

WeatherNotAvailableMessage(cityv) ==
    << Lit("Weather data not available for "), Txt(Format(cityv)), Lit(".") >>

WeatherReport(cityv, w) ==
    << Lit("The current temperature in "), Txt(Format(cityv)), Lit(" is "),
       Txt(FormatTenths(w.temperature.tenths)), Lit("°C with a wind speed of "),
       Txt(FormatTenths(w.windspeed.tenths)), Lit(" km/h. Weather code: "),
       Txt(Digits(w.weathercode.tenths \div 10)), Lit(".") >>

RequestErrorMessage(e) == << Lit("Request error: "), Lit(e.msg) >>
UnexpectedErrorMessage(e) == << Lit("An unexpected error occurred: "), Lit(e.msg) >>

\* (variant) "except Exception" placed first: it takes every failure
WeatherHandlerCatchAllFirst(e) == ErrorDict(UnexpectedErrorMessage(e))

\* the except clauses of get_weather, in order
WeatherHandler(e) ==
    IF IsRequestException(e)
    THEN ErrorDict(RequestErrorMessage(e))
    ELSE ErrorDict(UnexpectedErrorMessage(e))

\* (variant) "if location is False:", which None does not satisfy
NotLocationIsFalse(loc) == loc.kind = "bool"

\* if not location:
NotLocation(loc) == IsFalsy(loc)

\* if "current_weather" not in data:
LacksCurrentWeather(d) == "current_weather" \notin DOMAIN d

WeatherFields == {"temperature", "windspeed", "weathercode"}

call_get_weather(c, cityv) ==
    /\ pc[c] = "idle"
    /\ tool' = [tool EXCEPT ![c] = "get_weather"]
    /\ city' = [city EXCEPT ![c] = cityv]
    /\ Goto(c, "w14")
    /\ UNCHANGED <<info_type, travelLocals, netLocals, exc, calls>>

\* lines 14-15
WeatherGeocode(c) ==
    /\ pc[c] = "w14"
    /\ Invoke(c, "geocode")
    /\ \E r \in GeocodeOutcomes :
         IF r.kind = "raise"
         THEN /\ Raise(c, r.exc, "w51")
              /\ UNCHANGED location
         ELSE /\ location' = [location EXCEPT ![c] = r.value]
              /\ Goto(c, "w16")
              /\ UNCHANGED exc
    /\ UNCHANGED <<tool, city, info_type, travelLocals, response, data, timezone_name>>

\* lines 16-26
WeatherCheckLocation(c) ==
    /\ pc[c] = "w16"
    /\ IF NotLocation(location[c])
       THEN /\ Return(c, ErrorDict(CityNotFoundMessage(city[c])))
            /\ UNCHANGED exc
       ELSE IF location[c].kind # "Location"
       THEN Raise(c, Exception("AttributeError",
                     "'NoneType' object has no attribute 'latitude'"), "w51")
       ELSE /\ Goto(c, "w28")
            /\ UNCHANGED exc
    /\ UNCHANGED <<tool, city, info_type, travelLocals, netLocals, calls>>

\* line 28
WeatherGet(c) ==
    /\ pc[c] = "w28"
    /\ Invoke(c, "requests.get")
    /\ \E r \in GetOutcomes :
         IF r.kind = "raise"
         THEN /\ Raise(c, r.exc, "w51")
              /\ UNCHANGED response
         ELSE /\ response' = [response EXCEPT ![c] = r.value]
              /\ Goto(c, "w29")
              /\ UNCHANGED exc
    /\ UNCHANGED <<tool, city, info_type, travelLocals, location, data, timezone_name>>

\* line 29
WeatherRaiseForStatus(c) ==
    /\ pc[c] = "w29"
    /\ IF IsHttpError(response[c])
       THEN Raise(c, Exception("requests.exceptions.HTTPError", "Client or Server Error"),
                  "w51")
       ELSE /\ Goto(c, "w30")
            /\ UNCHANGED exc
    /\ UNCHANGED <<tool, city, info_type, travelLocals, netLocals, calls>>

\* line 30
WeatherJson(c) ==
    /\ pc[c] = "w30"
    /\ IF response[c].body.json
       THEN /\ data' = [data EXCEPT ![c] = response[c].body.value]
            /\ Goto(c, "w32")
            /\ UNCHANGED exc
       ELSE /\ \E e \in JsonErrors : Raise(c, e, "w51")
            /\ UNCHANGED data
    /\ UNCHANGED <<tool, city, info_type, travelLocals, location, response,
                   timezone_name, calls>>

\* lines 32-36
WeatherCheckData(c) ==
    /\ pc[c] = "w32"
    /\ IF LacksCurrentWeather(data[c])
       THEN Return(c, ErrorDict(WeatherNotAvailableMessage(city[c])))
       ELSE Goto(c, "w38")
    /\ UNCHANGED <<tool, city, info_type, travelLocals, netLocals, exc, calls>>

\* lines 38-49
WeatherExtract(c) ==
    /\ pc[c] = "w38"
    /\ IF "current_weather" \notin DOMAIN data[c]
       THEN Raise(c, Exception("KeyError", "'current_weather'"), "w51")
       ELSE LET weather == data[c].current_weather
                missing == WeatherFields \ DOMAIN weather
            IN  IF missing # {}
                THEN \* the first of the three lookups that fails, in source order
                     Raise(c, Exception("KeyError",
                              IF "temperature" \in missing THEN "'temperature'"
                              ELSE IF "windspeed" \in missing THEN "'windspeed'"
                              ELSE "'weathercode'"), "w51")
                ELSE IF weather.temperature.kind # "number"
                THEN Raise(c, Exception("TypeError",
                              "unsupported format string passed to NoneType.__format__"),
                           "w51")
                ELSE /\ Return(c, SuccessDict(WeatherReport(city[c], weather)))
                     /\ UNCHANGED exc
    /\ UNCHANGED <<tool, city, info_type, travelLocals, netLocals, calls>>

\* (variant) the handler starts the lookup again before giving up
WeatherExceptRetry(c) ==
    /\ pc[c] = "w51"
    /\ IF Len(calls[c]) < 3
       THEN /\ Goto(c, "w14")
            /\ exc' = [exc EXCEPT ![c] = NoExc]
            /\ location' = [location EXCEPT ![c] = Unset]
            /\ response' = [response EXCEPT ![c] = Unset]
       ELSE /\ Return(c, WeatherHandler(exc[c]))
            /\ UNCHANGED <<exc, location, response>>
    /\ UNCHANGED <<tool, city, info_type, travelLocals, data, timezone_name, calls>>

\* lines 51-57
WeatherExcept(c) ==
    /\ pc[c] = "w51"
    /\ Return(c, WeatherHandler(exc[c]))
    /\ UNCHANGED <<tool, city, info_type, travelLocals, netLocals, exc, calls>>

(***************************************************************************)
(* get_current_time                                                        *)
(***************************************************************************)
TimezoneNotFoundMessage(cityv) ==
    << Lit("Could not determine the timezone for "), Txt(Format(cityv)), Lit(".") >>

TimeReport(cityv, now) ==
    << Lit("The current time in "), Txt(Format(cityv)), Lit(" is "), Txt(Strftime(now)) >>

\* (variant) the message of get_weather's handler used here too
TimeErrorMessagePrefixed(e) == << Lit("An unexpected error occurred: "), Lit(e.msg) >>

\* str(e)
TimeErrorMessage(e) == << Lit(e.msg) >>

\* if not timezone_name:
NotTimezone(tz) == IsFalsy(tz)

call_get_current_time(c, cityv) ==
    /\ pc[c] = "idle"
    /\ tool' = [tool EXCEPT ![c] = "get_current_time"]
    /\ city' = [city EXCEPT ![c] = cityv]
    /\ Goto(c, "c65")
    /\ UNCHANGED <<info_type, travelLocals, netLocals, exc, calls>>

\* lines 65-68
TimeGeocode(c) ==
    /\ pc[c] = "c65"
    /\ Invoke(c, "geocode")
    /\ \E r \in GeocodeOutcomes :
         IF r.kind = "raise"
         THEN /\ Raise(c, r.exc, "c89")
              /\ UNCHANGED location
         ELSE /\ location' = [location EXCEPT ![c] = r.value]
              /\ Goto(c, "c69")
              /\ UNCHANGED exc
    /\ UNCHANGED <<tool, city, info_type, travelLocals, response, data, timezone_name>>

\* lines 69-73
TimeCheckLocation(c) ==
    /\ pc[c] = "c69"
    /\ IF NotLocation(location[c])
       THEN /\ Return(c, ErrorDict(CityNotFoundMessage(city[c])))
            /\ UNCHANGED exc
       ELSE IF location[c].kind # "Location"
       THEN Raise(c, Exception("AttributeError",
                     "'NoneType' object has no attribute 'longitude'"), "c89")
       ELSE /\ Goto(c, "c75")
            /\ UNCHANGED exc
    /\ UNCHANGED <<tool, city, info_type, travelLocals, netLocals, calls>>

\* line 75
TimeTimezoneAt(c) ==
    /\ pc[c] = "c75"
    /\ Invoke(c, "timezone_at")
    /\ \E r \in TimezoneOutcomes :
         IF r.kind = "raise"
         THEN /\ Raise(c, r.exc, "c89")
              /\ UNCHANGED timezone_name
         ELSE /\ timezone_name' = [timezone_name EXCEPT ![c] = r.value]
              /\ Goto(c, "c76")
              /\ UNCHANGED exc
    /\ UNCHANGED <<tool, city, info_type, travelLocals, location, response, data>>

\* lines 76-80
TimeCheckTimezone(c) ==
    /\ pc[c] = "c76"
    /\ IF NotTimezone(timezone_name[c])
       THEN Return(c, ErrorDict(TimezoneNotFoundMessage(city[c])))
       ELSE Goto(c, "c82")
    /\ UNCHANGED <<tool, city, info_type, travelLocals, netLocals, exc, calls>>

\* lines 82-87
TimeFormat(c) ==
    /\ pc[c] = "c82"
    /\ \E r \in ZoneInfoOutcomes :
         IF timezone_name[c].kind # "str"
         THEN Raise(c, Exception("TypeError", "ZoneInfo keys must be strings"), "c89")
         ELSE IF r.kind = "raise"
         THEN Raise(c, r.exc, "c89")
         ELSE /\ Return(c, SuccessDict(TimeReport(city[c], r.value)))
              /\ UNCHANGED exc
    /\ UNCHANGED <<tool, city, info_type, travelLocals, netLocals, calls>>

\* lines 89-90
TimeExcept(c) ==
    /\ pc[c] = "c89"
    /\ Return(c, ErrorDict(TimeErrorMessage(exc[c])))
    /\ UNCHANGED <<tool, city, info_type, travelLocals, netLocals, exc, calls>>

(***************************************************************************)
(* The orchestrator                                                        *)
(***************************************************************************)
\* the orchestrator takes the result; the call's frame is gone
Collect(c) ==
    /\ pc[c] = "done"
    /\ pc' = [pc EXCEPT ![c] = "idle"]
    /\ tool' = [tool EXCEPT ![c] = "none"]
    /\ city' = [city EXCEPT ![c] = Unset]
    /\ info_type' = [info_type EXCEPT ![c] = Unset]
    /\ city_lower' = [city_lower EXCEPT ![c] = Unset]
    /\ info_type_lower' = [info_type_lower EXCEPT ![c] = Unset]
    /\ travel_data' = [travel_data EXCEPT ![c] = NoDict]
    /\ city_info' = [city_info EXCEPT ![c] = NoDict]
    /\ key_idx' = [key_idx EXCEPT ![c] = 0]
    /\ found_info_key' = [found_info_key EXCEPT ![c] = Unset]
    /\ location' = [location EXCEPT ![c] = Unset]
    /\ response' = [response EXCEPT ![c] = Unset]
    /\ data' = [data EXCEPT ![c] = Unset]
    /\ timezone_name' = [timezone_name EXCEPT ![c] = Unset]
    /\ exc' = [exc EXCEPT ![c] = NoExc]
    /\ outcome' = [outcome EXCEPT ![c] = Pending]
    /\ calls' = [calls EXCEPT ![c] = <<>>]

Init ==
    /\ pc = [c \in Calls |-> "idle"]
    /\ tool = [c \in Calls |-> "none"]
    /\ city = [c \in Calls |-> Unset]
    /\ info_type = [c \in Calls |-> Unset]
    /\ city_lower = [c \in Calls |-> Unset]
    /\ info_type_lower = [c \in Calls |-> Unset]
    /\ travel_data = [c \in Calls |-> NoDict]
    /\ city_info = [c \in Calls |-> NoDict]
    /\ key_idx = [c \in Calls |-> 0]
    /\ found_info_key = [c \in Calls |-> Unset]
    /\ location = [c \in Calls |-> Unset]
    /\ response = [c \in Calls |-> Unset]
    /\ data = [c \in Calls |-> Unset]
    /\ timezone_name = [c \in Calls |-> Unset]
    /\ exc = [c \in Calls |-> NoExc]
    /\ outcome = [c \in Calls |-> Pending]
    /\ calls = [c \in Calls |-> <<>>]

(***************************************************************************)
(* Inputs                                                                  *)
(***************************************************************************)
s_London == <<"L", "o", "n", "d", "o", "n">>
s_TOKYO == <<"T", "O", "K", "Y", "O">>
s_New_York == <<"N", "e", "w", " ", "Y", "o", "r", "k">>
s_Paris == <<"P", "a", "r", "i", "s">>
s_surabaya == <<"s", "u", "r", "a", "b", "a", "y", "a">>
s_Ponorogo == <<"P", "o", "n", "o", "r", "o", "g", "o">>
s_Berlin == <<"B", "e", "r", "l", "i", "n">>
s_Culture == <<"C", "u", "l", "t", "u", "r", "e">>
s_culture == <<"c", "u", "l", "t", "u", "r", "e">>
s_outlets == <<"o", "u", "t", "l", "e", "t", "s">>
s_food == <<"f", "o", "o", "d">>
s_Power_Outlets == <<"P", "o", "w", "e", "r", " ", "O", "u", "t", "l", "e", "t", "s">>
s_transport == <<"t", "r", "a", "n", "s", "p", "o", "r", "t">>
s_public_transportation ==
    <<"p", "u", "b", "l", "i", "c", " ", "t", "r", "a", "n", "s", "p", "o", "r", "t",
      "a", "t", "i", "o", "n">>
s_culture_and_transportation ==
    <<"c", "u", "l", "t", "u", "r", "e", " ", "a", "n", "d", " ", "t", "r", "a", "n",
      "s", "p", "o", "r", "t", "a", "t", "i", "o", "n">>

\* the letters of the category keys, two capitals and a letter no key has
Alphabet ==
    {"p", "o", "w", "e", "r", " ", "u", "t", "l", "s", "c", "a", "n", "i", "C", "T", "x"}

RECURSIVE TextsUpTo(_)
\* every text over Alphabet of at most n letters
TextsUpTo(n) ==
    IF n = 0 THEN {<<>>}
    ELSE LET shorter == TextsUpTo(n - 1)
         IN  shorter \cup {Append(t, a) : t \in shorter, a \in Alphabet}

\* arguments of the calls that run side by side
SomeCities == {Str(s_TOKYO), Str(s_Berlin), None}
SomeInfoTypes == {Str(s_Culture), Str(s_outlets), Str(s_food), Bytes(s_culture), None}

\* arguments of get_travel_info run alone over every short info_type
AllCities ==
    {Str(s) : s \in {s_London, s_TOKYO, s_New_York, s_Paris, s_surabaya, s_Ponorogo,
                      s_Berlin, <<>>}}
AllInfoTypes ==
    {Str(s) : s \in TextsUpTo(MaxLen) \cup
                    {s_Culture, s_outlets, s_food, s_Power_Outlets, s_transport,
                     s_public_transportation, s_culture_and_transportation}}

Step(c) ==
    \/ TravelLower(c) \/ TravelBuild(c) \/ TravelCity(c) \/ TravelExact(c)
    \/ TravelScan(c) \/ TravelFinish(c) \/ TravelExcept(c)
    \/ WeatherGeocode(c) \/ WeatherCheckLocation(c) \/ WeatherGet(c)
    \/ WeatherRaiseForStatus(c) \/ WeatherJson(c) \/ WeatherCheckData(c)
    \/ WeatherExtract(c) \/ WeatherExcept(c)
    \/ TimeGeocode(c) \/ TimeCheckLocation(c) \/ TimeTimezoneAt(c)
    \/ TimeCheckTimezone(c) \/ TimeFormat(c) \/ TimeExcept(c)
    \/ Collect(c)

\* the orchestrator starts a tool on a call that is free
Start(c) ==
    /\ pc[c] = "idle"
    /\ \/ \E cityv \in SomeCities : call_get_weather(c, cityv)
       \/ \E cityv \in SomeCities : call_get_current_time(c, cityv)
       \/ \E cityv \in SomeCities, infov \in SomeInfoTypes :
              call_get_travel_info(c, cityv, infov)

Next == \E c \in Calls : Start(c) \/ Step(c)

Spec == Init /\ [][Next]_vars

\* get_travel_info alone, over every city and every short info_type
TravelStep(c) ==
    \/ TravelLower(c) \/ TravelBuild(c) \/ TravelCity(c) \/ TravelExact(c)
    \/ TravelScan(c) \/ TravelFinish(c) \/ Collect(c)

StartTravel(c) ==
    /\ pc[c] = "idle"
    /\ \E cityv \in AllCities, infov \in AllInfoTypes :
           call_get_travel_info(c, cityv, infov)

NextTravel == StartTravel("call1") \/ TravelStep("call1")

SpecTravel == Init /\ [][NextTravel]_vars

(***************************************************************************)
(* get_travel_info as one function of its arguments (lines 93-168 run      *)
(* from start to end with nothing in between)                              *)
(***************************************************************************)
RECURSIVE FirstMatch(_, _, _)
\* the for loop of lines 149-152: the first key that matches, or None
FirstMatch(itl, info, i) ==
    IF i > Len(info) THEN None
    ELSE IF KeyMatches(itl, info[i].key) THEN Str(info[i].key)
    ELSE FirstMatch(itl, info, i + 1)

get_travel_info(cityv, infov) ==
    IF ~(HasLower(cityv) /\ HasLower(infov)) THEN Raised(AttributeErrorLower)
    ELSE LET cl == Lower(cityv)
             il == Lower(infov)
         IN  IF ~InDict(cl, TravelTable)
             THEN Returned(ErrorDict(UnknownCityMessage(cityv)))
             ELSE LET info == Entry(TravelTable, cl.val).info
                  IN  IF InDict(il, info)
                      THEN Returned(SuccessDict(
                               TravelReport(infov, cityv, Entry(info, il.val).fact)))
                      ELSE IF InRaises(il)
                      THEN Returned(ErrorDict(TravelExceptMessage(TypeErrorIn)))
                      ELSE LET found == FirstMatch(il, info, 1)
                           IN  IF Truthy(found)
                               THEN Returned(SuccessDict(
                                        TravelReport(infov, cityv,
                                                     Entry(info, found.val).fact)))
                               ELSE Returned(ErrorDict(
                                        UnknownInfoMessage(infov, cityv, info)))

(***************************************************************************)
(* Properties                                                              *)
(***************************************************************************)
Finished(c, t) == pc[c] = "done" /\ tool[c] = t
ReturnedBy(c, t) == Finished(c, t) /\ outcome[c].kind = "returned"
Failed(c, t) == ReturnedBy(c, t) /\ outcome[c].value.status = "error"
Succeeded(c, t) == ReturnedBy(c, t) /\ outcome[c].value.status = "success"

\* C1: every value a tool returns has status "success" or "error"; with "success"
\* it carries report and no error_message, with "error" it carries error_message
\* and no report.
C1_ResultShape ==
    \A c \in Calls :
        outcome[c].kind = "returned" =>
            LET r == outcome[c].value
            IN  /\ "status" \in DOMAIN r
                /\ r.status \in {"success", "error"}
                /\ r.status = "success" =>
                       DOMAIN r = {"status", "report"} /\ r.report # <<>>
                /\ r.status = "error" =>
                       DOMAIN r = {"status", "error_message"} /\ r.error_message # <<>>

\* a weather report and an error made by the except clause of get_travel_info,
\* returned side by side
C1_Witness ==
    \E c, d \in Calls :
        /\ Succeeded(c, "get_weather")
        /\ Failed(d, "get_travel_info")
        /\ exc[d] # NoExc

\* C2: no call ends by raising: every finished call has returned a dict, and
\* get_travel_info given an argument that is not text has returned an error whose
\* message starts "An error occurred while fetching travel information: ".
C2_NothingPropagates ==
    \A c \in Calls :
        pc[c] = "done" =>
            /\ outcome[c].kind = "returned"
            /\ (tool[c] = "get_travel_info"
                    /\ (city[c].kind # "str" \/ info_type[c].kind # "str")) =>
                   /\ outcome[c].value.status = "error"
                   /\ outcome[c].value.error_message[1] =
                          Lit("An error occurred while fetching travel information: ")

\* C3: get_weather, in step order: no location from the geocoder gives the error
\* "Could not find the city: {city}."; a location and a response body without
\* current_weather give "Weather data not available for {city}."; success only
\* with a location and a body that has current_weather.
C3_WeatherStepOrder ==
    \A c \in Calls :
        Finished(c, "get_weather") =>
            /\ location[c] = None =>
                   outcome[c] = Returned([status |-> "error", error_message |->
                       << Lit("Could not find the city: "), Txt(Format(city[c])),
                          Lit(".") >>])
            /\ (location[c].kind = "Location" /\ data[c] # Unset
                    /\ "current_weather" \notin DOMAIN data[c]) =>
                   outcome[c] = Returned([status |-> "error", error_message |->
                       << Lit("Weather data not available for "),
                          Txt(Format(city[c])), Lit(".") >>])
            /\ Succeeded(c, "get_weather") =>
                   /\ location[c].kind = "Location"
                   /\ data[c] # Unset
                   /\ "current_weather" \in DOMAIN data[c]

C3_Witness ==
    \E c, d \in Calls :
        /\ Failed(c, "get_weather") /\ location[c].kind = "Location"
        /\ data[c] # Unset /\ "current_weather" \notin DOMAIN data[c]
        /\ Failed(d, "get_weather") /\ location[d] = None /\ city[d] = Str(s_Berlin)

\* where a failure of get_weather was raised
RaisedInGeocoding(c) == exc[c] # NoExc /\ location[c] = Unset
RaisedInHttpRequest(c) ==
    /\ exc[c] # NoExc /\ location[c] # Unset
    /\ \/ response[c] = Unset
       \/ IsHttpError(response[c])
RaisedInJsonDecoding(c) ==
    /\ exc[c] # NoExc /\ response[c] # Unset /\ ~IsHttpError(response[c])
    /\ data[c] = Unset
RaisedOnParsedData(c) == exc[c] # NoExc /\ data[c] # Unset
ErrorPrefix(c) == outcome[c].value.error_message[1]

\* C4 as claimed: in get_weather a network failure of the geocoding request or of
\* the weather HTTP request (a timeout, a non-2xx status) gives "Request error: ",
\* every other failure gives "An unexpected error occurred: ".
C4_AsClaimed ==
    \A c \in Calls :
        (Finished(c, "get_weather") /\ exc[c] # NoExc) =>
            /\ Failed(c, "get_weather")
            /\ (RaisedInGeocoding(c) \/ RaisedInHttpRequest(c)) =>
                   ErrorPrefix(c) = Lit("Request error: ")
            /\ ~(RaisedInGeocoding(c) \/ RaisedInHttpRequest(c)) =>
                   ErrorPrefix(c) = Lit("An unexpected error occurred: ")

\* C4 amended: a failure of the weather HTTP request (timeout, connection failure,
\* non-2xx status) gives "Request error: "; a failure of the geocoding request and
\* a failure on the parsed body (current_weather without temperature, windspeed or
\* weathercode) give "An unexpected error occurred: "; a body that is not JSON
\* gives one of the two.
C4_WeatherFailures ==
    \A c \in Calls :
        (Finished(c, "get_weather") /\ exc[c] # NoExc) =>
            /\ Failed(c, "get_weather")
            /\ RaisedInHttpRequest(c) => ErrorPrefix(c) = Lit("Request error: ")
            /\ (RaisedInGeocoding(c) \/ RaisedOnParsedData(c)) =>
                   ErrorPrefix(c) = Lit("An unexpected error occurred: ")
            /\ RaisedInJsonDecoding(c) =>
                   ErrorPrefix(c) \in {Lit("Request error: "),
                                       Lit("An unexpected error occurred: ")}

C4_Witness ==
    \E c, d \in Calls :
        /\ Finished(c, "get_weather") /\ RaisedInGeocoding(c)
        /\ ErrorPrefix(c) = Lit("An unexpected error occurred: ")
        /\ Finished(d, "get_weather") /\ RaisedInHttpRequest(d)
        /\ response[d] # Unset
        /\ ErrorPrefix(d) = Lit("Request error: ")

\* C5: get_current_time, in step order: no location gives "Could not find the
\* city: {city}."; a location and no zone give "Could not determine the timezone
\* for {city}."; a raised failure gives the failure's own description as
\* error_message; otherwise success with a report starting "The current time in
\* {city} is ", and success only with both a location and a zone.
C5_TimeStepOrder ==
    \A c \in Calls :
        Finished(c, "get_current_time") =>
            /\ outcome[c].kind = "returned"
            /\ location[c] = None =>
                   outcome[c].value = [status |-> "error", error_message |->
                       << Lit("Could not find the city: "), Txt(Format(city[c])),
                          Lit(".") >>]
            /\ (location[c].kind = "Location" /\ timezone_name[c] = None) =>
                   outcome[c].value = [status |-> "error", error_message |->
                       << Lit("Could not determine the timezone for "),
                          Txt(Format(city[c])), Lit(".") >>]
            /\ exc[c] # NoExc =>
                   outcome[c].value =
                       [status |-> "error", error_message |-> << Lit(exc[c].msg) >>]
            /\ (location[c].kind = "Location" /\ timezone_name[c].kind = "str"
                    /\ exc[c] = NoExc) =>
                   /\ outcome[c].value.status = "success"
                   /\ SubSeq(outcome[c].value.report, 1, 3) =
                          << Lit("The current time in "), Txt(Format(city[c])),
                             Lit(" is ") >>
            /\ outcome[c].value.status = "success" =>
                   location[c].kind = "Location" /\ timezone_name[c].kind = "str"

C5_Witness ==
    \E c, d \in Calls :
        /\ Failed(c, "get_current_time") /\ timezone_name[c] = None
        /\ Finished(d, "get_current_time") /\ timezone_name[d].kind = "str"
        /\ exc[d].type = "zoneinfo.ZoneInfoNotFoundError"

\* the table, read as the claims read it
CityKeys == {TravelTable[i].key : i \in 1..Len(TravelTable)}
InfoOf(ck) == (CHOOSE e \in {TravelTable[i] : i \in 1..Len(TravelTable)} : e.key = ck).info
CategoryKeys == <<k_power_outlets, k_culture, k_transportation>>
FactOf(ck, cat) == (CHOOSE e \in {InfoOf(ck)[i] : i \in 1..3} : e.key = cat).fact
KnownCity(c) == city[c].kind = "str" /\ LowerSeq(city[c].val) \in CityKeys
ExactCategory(c) ==
    info_type[c].kind = "str" /\ \E i \in 1..3 : CategoryKeys[i] = LowerSeq(info_type[c].val)
\* key i is part of the lower-cased info_type, or the lower-cased info_type part of it
Overlaps(c, i) ==
    \/ Contains(LowerSeq(info_type[c].val), CategoryKeys[i])
    \/ Contains(CategoryKeys[i], LowerSeq(info_type[c].val))
ReportFor(c, fact) ==
    Returned([status |-> "success", report |->
        << Lit("For "), Txt(info_type[c].val), Lit(" in "), Txt(city[c].val),
           Lit(": "), Lit(fact) >>])

\* C6: a city whose lower-cased form is a table key and an info_type whose
\* lower-cased form is one of the city's category keys give success with the
\* report "For {info_type} in {city}: {fact}", fact being the table's entry for
\* that city and category, city and info_type in the caller's case ("TOKYO",
\* "Culture" gives Tokyo's culture fact).
C6_ExactMatch ==
    \A c \in Calls :
        Finished(c, "get_travel_info") =>
            /\ (KnownCity(c) /\ ExactCategory(c)) =>
                   outcome[c] = ReportFor(c, FactOf(LowerSeq(city[c].val),
                                                    LowerSeq(info_type[c].val)))
            /\ (city[c] = Str(s_TOKYO) /\ info_type[c] = Str(s_Culture)) =>
                   outcome[c] = ReportFor(c,
                       "Highly values politeness, order, and cleanliness. Do not tip. Remove shoes in homes and some restaurants. Respect queues.")

C6_Witness ==
    \E c \in Calls :
        /\ Succeeded(c, "get_travel_info")
        /\ city[c] = Str(s_TOKYO) /\ info_type[c] = Str(s_Culture)

\* C7: for a known city and an info_type equal to no category key, the fact
\* returned is that city's fact of the first key, in the order power outlets,
\* culture, transportation, that is part of the lower-cased info_type or has it as
\* a part; "outlets", the empty text and every text that is part of several keys
\* give the power-outlets fact.
C7_FirstMatchInTableOrder ==
    \A c \in Calls :
        (Finished(c, "get_travel_info") /\ KnownCity(c) /\ info_type[c].kind = "str"
             /\ ~ExactCategory(c)) =>
            LET ck == LowerSeq(city[c].val)
                hits == {i \in 1..3 : Overlaps(c, i)}
                first == CHOOSE i \in hits : \A j \in hits : i <= j
                partOf == {i \in 1..3 :
                              Contains(LowerSeq(info_type[c].val), CategoryKeys[i])}
            IN  /\ hits # {} => outcome[c] = ReportFor(c, InfoOf(ck)[first].fact)
                /\ (info_type[c].val \in {s_outlets, <<>>} \/ Cardinality(partOf) >= 2) =>
                       outcome[c] = ReportFor(c, FactOf(ck, k_power_outlets))

\* "culture and transportation" holds two keys and gets the earlier one's fact
C7_Witness ==
    \E c \in Calls :
        /\ Succeeded(c, "get_travel_info")
        /\ city[c] = Str(s_Paris)
        /\ info_type[c] = Str(s_culture_and_transportation)
        /\ found_info_key[c] = Str(k_culture)

\* C8: get_travel_info returns "error" exactly when (a) the lower-cased city is no
\* table key, with a message naming the city as given and suggesting "London,
\* Tokyo, New York, or Paris", or (b) the city is known and no category key equals,
\* holds or is held by the lower-cased info_type, with a message naming the
\* info_type as given and listing "power outlets, culture, transportation"; all
\* six table cities are known; otherwise the status is "success".
C8_TravelErrors ==
    \A c \in Calls :
        (Finished(c, "get_travel_info") /\ city[c].kind = "str"
             /\ info_type[c].kind = "str") =>
            LET unknownCity == LowerSeq(city[c].val) \notin
                    { <<"l", "o", "n", "d", "o", "n">>, <<"t", "o", "k", "y", "o">>,
                      <<"n", "e", "w", " ", "y", "o", "r", "k">>,
                      <<"p", "a", "r", "i", "s">>,
                      <<"s", "u", "r", "a", "b", "a", "y", "a">>,
                      <<"p", "o", "n", "o", "r", "o", "g", "o">> }
                noCategory == \A i \in 1..3 : ~Overlaps(c, i)
            IN  /\ outcome[c].kind = "returned"
                /\ outcome[c].value.status = "error" <=> (unknownCity \/ noCategory)
                /\ outcome[c].value.status = "success" <=> ~(unknownCity \/ noCategory)
                /\ unknownCity =>
                       outcome[c].value.error_message =
                           << Lit("Sorry, I don't have specific travel information for "),
                              Txt(city[c].val),
                              Lit(" yet. You can try major cities like London, Tokyo, New York, or Paris.") >>
                /\ (~unknownCity /\ noCategory) =>
                       outcome[c].value.error_message =
                           << Lit("Sorry, I don't have information about '"),
                              Txt(info_type[c].val), Lit("' for "), Txt(city[c].val),
                              Lit(". Available information includes: "),
                              Txt(<<"p", "o", "w", "e", "r", " ", "o", "u", "t", "l", "e",
                                    "t", "s", ",", " ", "c", "u", "l", "t", "u", "r", "e",
                                    ",", " ", "t", "r", "a", "n", "s", "p", "o", "r", "t",
                                    "a", "t", "i", "o", "n">>),
                              Lit(".") >>

C8_Witness ==
    \E c \in Calls :
        /\ Failed(c, "get_travel_info")
        /\ city[c] = Str(s_London) /\ info_type[c] = Str(s_food)

\* C9: no call changes the travel table, and get_travel_info is a function of its
\* arguments: whatever the other calls are doing, a finished call holds the table
\* as written in the source and ends as the call run alone ends, and two finished
\* calls with the same arguments end alike.
C9_TravelInfoIsAFunction ==
    \A c \in Calls :
        /\ travel_data[c] \in {NoDict, TravelTable}
        /\ Finished(c, "get_travel_info") =>
               /\ outcome[c] = get_travel_info(city[c], info_type[c])
               /\ \A d \in Calls :
                      (Finished(d, "get_travel_info") /\ city[d] = city[c]
                           /\ info_type[d] = info_type[c]) => outcome[d] = outcome[c]

C9_Witness ==
    \E c, d \in Calls :
        /\ c # d
        /\ Succeeded(c, "get_travel_info") /\ Succeeded(d, "get_travel_info")
        /\ city[c] = city[d] /\ info_type[c] = info_type[d]

\* C10: within one call get_weather invokes the geocoder at most once and then
\* the weather provider at most once, get_current_time the geocoder and then the
\* timezone resolver likewise; the second one only after the geocoder returned a
\* location; nothing is invoked after a failure or a not-found; get_travel_info
\* invokes nothing.
C10_NoRetries ==
    \A c \in Calls :
        /\ tool[c] = "get_weather" =>
               calls[c] \in {<<>>, <<"geocode">>, <<"geocode", "requests.get">>}
        /\ tool[c] = "get_current_time" =>
               calls[c] \in {<<>>, <<"geocode">>, <<"geocode", "timezone_at">>}
        /\ tool[c] \in {"get_travel_info", "none"} => calls[c] = <<>>
        /\ Len(calls[c]) >= 2 => location[c].kind = "Location"
        /\ (pc[c] = "done" /\ location[c] \in {None, Unset}) => Len(calls[c]) <= 1

\* an invocation is never followed by another once the call has failed
C10_Witness ==
    \E c, d \in Calls :
        /\ Failed(c, "get_weather") /\ calls[c] = <<"geocode", "requests.get">>
        /\ exc[c] # NoExc
        /\ Failed(d, "get_current_time") /\ calls[d] = <<"geocode">>

====
